---- MODULE Spec2Model ----
(***************************************************************************)
(* Model of the nodebridge package of inx-app: the generic stream consumer *)
(* ListenToStream, the capability pollers Indexer / EventAPI, and the      *)
(* lifecycle of Run with its background status subscription, Connect with  *)
(* its bounded configuration retry, and the cached node status.            *)
(***************************************************************************)
EXTENDS Integers, Sequences, FiniteSets, TLC

(* ------------------------------ bounds --------------------------------- *)
\* most items one stream session delivers
MaxItems == 2
\* most probe attempts one poller call makes
MaxProbes == 3
\* largest maxConnectionAttempts passed to Connect
MaxAttempts == 3

(* ----------------------------- vocabulary ------------------------------ *)
Nil == "nil"
None == "none"

\* the generic session (a direct ListenToStream call), the background status
\* subscription of Run, and one ListenToBlocks call
Sessions == {"generic", "status", "blocks"}
GrpcSessions == {"status", "blocks"}
Plugins == {"indexer", "mqtt"}
\* contexts: one per session / poller call, "run" is Run's argument and
\* "status" is the context c that Run derives from it
Ctxs == Sessions \cup Plugins \cup {"run", "connect"}

\* node status records: c<slot of the latest commitment>f<slot of the latest
\* finalized commitment>; a commitment is identified by its slot
StatusItems == {"c1f1", "c2f1", "c2f2"}
CommitSlot(i) == IF i \in {"c1f1", "c1f2"} THEN 1 ELSE IF i \in {"c2f1", "c2f2"} THEN 2 ELSE 0
FinalSlot(i) == IF i \in {"c1f1", "c2f1"} THEN 1 ELSE IF i \in {"c1f2", "c2f2"} THEN 2 ELSE 0
\* the record with the given latest and latest finalized commitment
StatusOf(c, f) == CHOOSE i \in StatusItems \cup {"c1f2"} : CommitSlot(i) = c /\ FinalSlot(i) = f
\* the record Connect read before Run is called
FirstStatus == "c1f1"
\* bug variant: the records arrive in any order
NodeOrdered_Any(a, b) == TRUE
\* the node's commitments only advance: a later record never regresses
NodeOrdered(a, b) == CommitSlot(a) <= CommitSlot(b) /\ FinalSlot(a) <= FinalSlot(b)

ItemsOf(s) == IF s = "generic" THEN {"i1", "i2"} ELSE IF s = "status" THEN StatusItems ELSE {"b1"}
AllItems == UNION {ItemsOf(s) : s \in Sessions}
\* what receiverFunc can report instead of an item
StreamEOF == "EOF"
StatusCanceled == "Canceled"
\* grpc.ErrClientConnClosing: what a stream reports once its connection was
\* closed; its status code is codes.Canceled
ErrClientConnClosing == "ErrClientConnClosing"
\* status.Code(err)
StatusCode(o) == IF o = ErrClientConnClosing THEN StatusCanceled ELSE o
RecvErrsOf(s) == IF s = "generic" THEN {"Unavailable", "Internal"} ELSE {"Unavailable"}
RecvErrs == UNION {RecvErrsOf(s) : s \in Sessions}
\* the errors a consumerFunc can return
HandlerErrsOf(s) == IF s = "generic" THEN {"hErrA", "hErrB"} ELSE {"hErrA"}
HandlerErrs == UNION {HandlerErrsOf(s) : s \in Sessions}
OpenErr == "openErr"

VARIABLES
    workload,        \* the operations the client invokes in this run
    ctxCancelled,    \* ctxCancelled[x]: cancel of context x was called
    pc,              \* position of each ListenToStream session
    pending,         \* what the receive function of a session has ready
    cur,             \* local variable item of ListenToStream
    result,          \* return value of the session's call
    delivered,       \* items receiverFunc returned, in order
    handled,         \* items consumerFunc was invoked with, in order
    recvCalls,       \* number of receiverFunc calls
    active,          \* consumerFunc invocations that have not returned
    last,            \* what the last receiverFunc call returned
    hres,            \* what the last consumerFunc invocation returned
    cancelledAtCall, \* context was done when the last receiverFunc call began
    pollPc,          \* position of each capability poller call
    pollResult,      \* return value of the poller call
    probes,          \* probe invocations (getIndexerClient / getEventAPIClient)
    sleeps,          \* completed time.Sleep(1 * time.Second)
    probeLog,        \* what each probe returned, in order
    entryCancelled,  \* the context was already done when the poller was called
    sleptWhileDone,  \* some sleep began although the context was already done
    runPc,           \* position of Run
    bgPc,            \* position of the goroutine Run starts
    closeCount,      \* calls of n.conn.Close()
    connPc,          \* position of Connect
    connResult,      \* return value of Connect
    maxAttempts,     \* argument maxConnectionAttempts of Connect
    targetNetworkName, \* option WithTargetNetworkName, "" when not given
    networkName,     \* network name of the retrieved node configuration
    attempts,        \* ReadNodeConfiguration attempts made
    backoffs,        \* calls of retryBackoff (one-second waits begun)
    fetchLog,        \* what each ReadNodeConfiguration attempt returned
    connLog,         \* the steps Connect performed, in order
    statusReads,     \* ReadNodeStatus requests made by Connect
    snapshot,        \* the cached node status (nodeStatus, latestCommitment,
                     \* latestFinalizedCommitment), none while unpopulated
    prevSnapshot,    \* the snapshot the last update replaced
    events,          \* listener invocations of the last update, in order
    readPrev,        \* slot a reader got from its last but one LatestCommitment()
    readCur          \* slot a reader got from its last LatestCommitment()

streamVars == <<pc, pending, cur, result, delivered, handled, recvCalls, active, last, hres, cancelledAtCall>>
pollVars == <<pollPc, pollResult, probes, sleeps, probeLog, entryCancelled, sleptWhileDone>>
runVars == <<runPc, bgPc, closeCount>>
connVars == <<connPc, connResult, maxAttempts, targetNetworkName, networkName, attempts, backoffs, fetchLog, connLog, statusReads>>
cacheVars == <<snapshot, prevSnapshot, events, readPrev, readCur>>
vars == <<workload, ctxCancelled, streamVars, pollVars, runVars, connVars, cacheVars>>

(* ------------------------------ contexts ------------------------------- *)
\* bug variant: the contexts of the Listen* calls derive from Run's context
Done_DerivedFromRun(x) == ctxCancelled[x] \/ (x \in GrpcSessions /\ ctxCancelled["run"])

\* context.WithCancel(ctx): the derived context is done when it or its parent is
Done(x) == ctxCancelled[x] \/ (x = "status" /\ ctxCancelled["run"])

\* ctx.Err() != nil
CtxErr(x) == Done(x)

\* the operation that owns context x is part of the run
CtxInUse(x) ==
    \/ x = "generic" /\ "ListenToStream" \in workload
    \/ x = "blocks" /\ "ListenToBlocks" \in workload
    \/ x = "run" /\ "Run" \in workload
    \/ x = "indexer" /\ "Indexer" \in workload
    \/ x = "mqtt" /\ "EventAPI" \in workload
    \/ x = "connect" /\ "Connect" \in workload

\* the caller cancels a context
CancelCtx(x) ==
    /\ x # "status"
    /\ CtxInUse(x)
    /\ ~ctxCancelled[x]
    /\ ctxCancelled' = [ctxCancelled EXCEPT ![x] = TRUE]
    /\ UNCHANGED <<workload, connVars, cacheVars, streamVars, pollVars, runVars>>

(* --------------------------- ListenToStream ---------------------------- *)
\* bug variants of the stream-closed test: io.EOF forgotten, codes.Canceled forgotten
IsStreamClosed_NoEOF(o) == StatusCode(o) = StatusCanceled
IsStreamClosed_NoCanceled(o) == o = StreamEOF

\* ierrors.Is(err, io.EOF) || status.Code(err) == codes.Canceled
IsStreamClosed(o) == o = StreamEOF \/ StatusCode(o) = StatusCanceled

\* the status record the node produced last: the last one streamed, or the one
\* Connect read when none was streamed yet
NodeLast == IF delivered["status"] = <<>> THEN snapshot ELSE delivered["status"][Len(delivered["status"])]

\* the receive function gets something to report
StreamYield(s, o) ==
    /\ pc[s] = "recv"
    /\ pending[s] = None
    /\ o \in ItemsOf(s) \cup {StreamEOF, StatusCanceled, ErrClientConnClosing} \cup RecvErrsOf(s)
    /\ o = ErrClientConnClosing => s \in GrpcSessions /\ closeCount > 0
    /\ o \in ItemsOf(s) => Len(delivered[s]) < MaxItems
    /\ (s = "status" /\ o \in StatusItems) => NodeOrdered(NodeLast, o)
    /\ pending' = [pending EXCEPT ![s] = o]
    /\ UNCHANGED <<workload, connVars, cacheVars, ctxCancelled, pollVars, runVars, pc, cur, result, delivered, handled, recvCalls, active, last, hres, cancelledAtCall>>

\* top of the for loop: item, err := receiverFunc() is called and blocks
ListenToStream_Receive(s) ==
    /\ pc[s] = "start"
    /\ pc' = [pc EXCEPT ![s] = "recv"]
    /\ recvCalls' = [recvCalls EXCEPT ![s] = @ + 1]
    /\ cancelledAtCall' = [cancelledAtCall EXCEPT ![s] = Done(s)]
    /\ last' = [last EXCEPT ![s] = None]
    /\ UNCHANGED <<workload, connVars, cacheVars, ctxCancelled, pollVars, runVars, pending, cur, result, delivered, handled, active, hres>>

\* receiverFunc returns; the err != nil branch
ListenToStream_Received(s) ==
    /\ pc[s] = "recv"
    /\ pending[s] # None
    /\ pending' = [pending EXCEPT ![s] = None]
    /\ last' = [last EXCEPT ![s] = pending[s]]
    /\ IF pending[s] \in ItemsOf(s)
       THEN /\ cur' = [cur EXCEPT ![s] = pending[s]]
            /\ delivered' = [delivered EXCEPT ![s] = Append(@, pending[s])]
            /\ pc' = [pc EXCEPT ![s] = "check"]
            /\ UNCHANGED result
       ELSE /\ result' = [result EXCEPT ![s] = IF IsStreamClosed(pending[s]) THEN Nil ELSE pending[s]]
            /\ pc' = [pc EXCEPT ![s] = "done"]
            /\ UNCHANGED <<cur, delivered>>
    /\ UNCHANGED <<workload, connVars, cacheVars, ctxCancelled, pollVars, runVars, handled, recvCalls, active, hres, cancelledAtCall>>

\* bug variant: the item is dispatched without looking at the context
ListenToStream_CheckCtx_NoCheck(s) ==
    /\ pc[s] = "check"
    /\ handled' = [handled EXCEPT ![s] = Append(@, cur[s])]
    /\ active' = [active EXCEPT ![s] = @ + 1]
    /\ pc' = [pc EXCEPT ![s] = "handle"]
    /\ UNCHANGED <<workload, connVars, cacheVars, ctxCancelled, pollVars, runVars, pending, cur, result, delivered, recvCalls, last, hres, cancelledAtCall>>

\* if ctx.Err() != nil { break }, otherwise consumerFunc(item) is invoked
ListenToStream_CheckCtx(s) ==
    /\ pc[s] = "check"
    /\ IF CtxErr(s)
       THEN /\ result' = [result EXCEPT ![s] = Nil]
            /\ pc' = [pc EXCEPT ![s] = "done"]
            /\ UNCHANGED <<handled, active>>
       ELSE /\ handled' = [handled EXCEPT ![s] = Append(@, cur[s])]
            /\ active' = [active EXCEPT ![s] = @ + 1]
            /\ pc' = [pc EXCEPT ![s] = "handle"]
            /\ UNCHANGED result
    /\ UNCHANGED <<workload, connVars, cacheVars, ctxCancelled, pollVars, runVars, pending, cur, delivered, recvCalls, last, hres, cancelledAtCall>>

\* bug variant: the handler's error is dropped and the loop goes on
ListenToStream_Consumed_IgnoreErr(s, r) ==
    /\ pc[s] = "handle"
    /\ r \in {Nil} \cup HandlerErrsOf(s)
    /\ active' = [active EXCEPT ![s] = @ - 1]
    /\ hres' = [hres EXCEPT ![s] = r]
    /\ pc' = [pc EXCEPT ![s] = "start"]
    /\ UNCHANGED <<workload, connVars, cacheVars, ctxCancelled, pollVars, runVars, pending, cur, result, delivered, handled, recvCalls, last, cancelledAtCall>>

\* where the handler of session s is when it returns r: the handler of the
\* status subscription is processNodeStatus, which returns nil after it has
\* stored the snapshot and notified the listeners
ReturnPoint(s, r) == IF s = "status" /\ r = Nil THEN "notified" ELSE "handle"

\* consumerFunc returns r; an error is returned, nil continues the loop
ListenToStream_Consumed(s, r) ==
    /\ pc[s] = ReturnPoint(s, r)
    /\ r \in {Nil} \cup HandlerErrsOf(s)
    /\ active' = [active EXCEPT ![s] = @ - 1]
    /\ hres' = [hres EXCEPT ![s] = r]
    /\ IF r # Nil
       THEN /\ result' = [result EXCEPT ![s] = r]
            /\ pc' = [pc EXCEPT ![s] = "done"]
       ELSE /\ pc' = [pc EXCEPT ![s] = "start"]
            /\ UNCHANGED result
    /\ UNCHANGED <<workload, connVars, cacheVars, ctxCancelled, pollVars, runVars, pending, cur, delivered, handled, recvCalls, last, cancelledAtCall>>

\* the client calls ListenToStream directly with its own receive function
ListenToStream_Call ==
    /\ "ListenToStream" \in workload
    /\ pc["generic"] = "idle"
    /\ pc' = [pc EXCEPT !["generic"] = "start"]
    /\ UNCHANGED <<workload, connVars, cacheVars, ctxCancelled, pollVars, runVars, pending, cur, result, delivered, handled, recvCalls, active, last, hres, cancelledAtCall>>

(* ------------------------- capability pollers -------------------------- *)
ProbeOK == "ok"
ClientErr == "clientErr"
Handle == "handle"
\* nodeclient.ErrIndexerPluginNotAvailable / nodeclient.ErrMQTTPluginNotAvailable
NotAvailableErr(p) == IF p = "indexer" THEN "ErrIndexerPluginNotAvailable" ELSE "ErrMQTTPluginNotAvailable"
\* the errors of a probe whose context ended during the attempt: ctxTimeout
\* expired after one second, or the caller's context was cancelled
ProbeCtxErrs == {"DeadlineExceeded", StatusCanceled}
\* the errors a probe can end with besides "plugin not available": a failed
\* request, or the end of its context
ProbeErrs == {"requestFailed"} \cup ProbeCtxErrs
ProbeOutcomes(p) == {ProbeOK, NotAvailableErr(p)} \cup ProbeErrs

OpOf(p) == IF p = "indexer" THEN "Indexer" ELSE "EventAPI"

\* bug variant: the end of the probe's context is taken for "plugin not available"
IsNotAvailable_CtxErr(p, o) == o = NotAvailableErr(p) \/ o \in ProbeCtxErrs

\* bug variant: every probe error is taken for "plugin not available"
IsNotAvailable_AnyErr(p, o) == o # ProbeOK

\* ierrors.Is(err, nodeclient.Err...PluginNotAvailable)
IsNotAvailable(p, o) == o = NotAvailableErr(p)

\* Indexer(ctx) / EventAPI(ctx) is called: n.INXNodeClient() and its error check
Poller_Call(p, ok) ==
    /\ OpOf(p) \in workload
    /\ pollPc[p] = "idle"
    /\ entryCancelled' = [entryCancelled EXCEPT ![p] = Done(p)]
    /\ IF ok
       THEN /\ pollPc' = [pollPc EXCEPT ![p] = "loop"]
            /\ UNCHANGED pollResult
       ELSE /\ pollPc' = [pollPc EXCEPT ![p] = "done"]
            /\ pollResult' = [pollResult EXCEPT ![p] = ClientErr]
    /\ UNCHANGED <<workload, connVars, cacheVars, ctxCancelled, streamVars, runVars, probes, sleeps, probeLog, sleptWhileDone>>

\* bug variant: a do-while loop, the first probe is made before ctx.Err() is read
Poller_Loop_ProbeFirst(p) ==
    /\ pollPc[p] = "loop"
    /\ IF CtxErr(p) /\ probes[p] > 0
       THEN /\ pollPc' = [pollPc EXCEPT ![p] = "done"]
            /\ pollResult' = [pollResult EXCEPT ![p] = NotAvailableErr(p)]
            /\ UNCHANGED probes
       ELSE /\ probes[p] < MaxProbes
            /\ pollPc' = [pollPc EXCEPT ![p] = "probe"]
            /\ probes' = [probes EXCEPT ![p] = @ + 1]
            /\ UNCHANGED pollResult
    /\ UNCHANGED <<workload, connVars, cacheVars, ctxCancelled, streamVars, runVars, sleeps, probeLog, entryCancelled, sleptWhileDone>>

\* bug variant: for { probe ... }, the loop never reads ctx.Err()
Poller_Loop_NoCtx(p) ==
    /\ pollPc[p] = "loop"
    /\ probes[p] < MaxProbes
    /\ pollPc' = [pollPc EXCEPT ![p] = "probe"]
    /\ probes' = [probes EXCEPT ![p] = @ + 1]
    /\ UNCHANGED <<workload, connVars, cacheVars, ctxCancelled, streamVars, runVars, pollResult, sleeps, probeLog, entryCancelled, sleptWhileDone>>

\* for ctx.Err() == nil { probe ... }  return nil, Err...PluginNotAvailable
Poller_Loop(p) ==
    /\ pollPc[p] = "loop"
    /\ IF CtxErr(p)
       THEN /\ pollPc' = [pollPc EXCEPT ![p] = "done"]
            /\ pollResult' = [pollResult EXCEPT ![p] = NotAvailableErr(p)]
            /\ UNCHANGED probes
       ELSE /\ probes[p] < MaxProbes
            /\ pollPc' = [pollPc EXCEPT ![p] = "probe"]
            /\ probes' = [probes EXCEPT ![p] = @ + 1]
            /\ UNCHANGED pollResult
    /\ UNCHANGED <<workload, connVars, cacheVars, ctxCancelled, streamVars, runVars, sleeps, probeLog, entryCancelled, sleptWhileDone>>

\* bug variant: "plugin not available" is retried at once, without the sleep
Poller_ProbeReturn_NoSleep(p, o) ==
    /\ pollPc[p] = "probe"
    /\ o \in ProbeOutcomes(p)
    /\ o = StatusCanceled => Done(p)
    /\ probeLog' = [probeLog EXCEPT ![p] = Append(@, o)]
    /\ IF o = ProbeOK
       THEN /\ pollPc' = [pollPc EXCEPT ![p] = "done"]
            /\ pollResult' = [pollResult EXCEPT ![p] = Handle]
       ELSE IF ~IsNotAvailable(p, o)
            THEN /\ pollPc' = [pollPc EXCEPT ![p] = "done"]
                 /\ pollResult' = [pollResult EXCEPT ![p] = o]
            ELSE /\ pollPc' = [pollPc EXCEPT ![p] = "loop"]
                 /\ UNCHANGED pollResult
    /\ UNCHANGED <<workload, connVars, cacheVars, ctxCancelled, streamVars, runVars, probes, sleeps, entryCancelled, sleptWhileDone>>

\* variant: the sleep is skipped when the context is already done
Poller_ProbeReturn_CondSleep(p, o) ==
    /\ pollPc[p] = "probe"
    /\ o \in ProbeOutcomes(p)
    /\ o = StatusCanceled => Done(p)
    /\ probeLog' = [probeLog EXCEPT ![p] = Append(@, o)]
    /\ IF o = ProbeOK
       THEN /\ pollPc' = [pollPc EXCEPT ![p] = "done"]
            /\ pollResult' = [pollResult EXCEPT ![p] = Handle]
       ELSE IF ~IsNotAvailable(p, o)
            THEN /\ pollPc' = [pollPc EXCEPT ![p] = "done"]
                 /\ pollResult' = [pollResult EXCEPT ![p] = o]
            ELSE IF Done(p)
                 THEN /\ pollPc' = [pollPc EXCEPT ![p] = "done"]
                      /\ pollResult' = [pollResult EXCEPT ![p] = NotAvailableErr(p)]
                 ELSE /\ pollPc' = [pollPc EXCEPT ![p] = "sleep"]
                      /\ UNCHANGED pollResult
    /\ UNCHANGED <<workload, connVars, cacheVars, ctxCancelled, streamVars, runVars, probes, sleeps, entryCancelled, sleptWhileDone>>

\* the probe returns o within its one-second timeout
Poller_ProbeReturn(p, o) ==
    /\ pollPc[p] = "probe"
    /\ o \in ProbeOutcomes(p)
    /\ o = StatusCanceled => Done(p)
    /\ probeLog' = [probeLog EXCEPT ![p] = Append(@, o)]
    /\ IF o = ProbeOK
       THEN /\ pollPc' = [pollPc EXCEPT ![p] = "done"]
            /\ pollResult' = [pollResult EXCEPT ![p] = Handle]
            /\ UNCHANGED sleptWhileDone
       ELSE IF ~IsNotAvailable(p, o)
            THEN /\ pollPc' = [pollPc EXCEPT ![p] = "done"]
                 /\ pollResult' = [pollResult EXCEPT ![p] = o]
                 /\ UNCHANGED sleptWhileDone
            ELSE /\ pollPc' = [pollPc EXCEPT ![p] = "sleep"]
                 /\ sleptWhileDone' = [sleptWhileDone EXCEPT ![p] = @ \/ Done(p)]
                 /\ UNCHANGED pollResult
    /\ UNCHANGED <<workload, connVars, cacheVars, ctxCancelled, streamVars, runVars, probes, sleeps, entryCancelled>>

\* time.Sleep(1 * time.Second) is over; continue
Poller_Sleep(p) ==
    /\ pollPc[p] = "sleep"
    /\ sleeps' = [sleeps EXCEPT ![p] = @ + 1]
    /\ pollPc' = [pollPc EXCEPT ![p] = "loop"]
    /\ UNCHANGED <<workload, connVars, cacheVars, ctxCancelled, streamVars, runVars, pollResult, probes, probeLog, entryCancelled, sleptWhileDone>>

(* --------------------- Run and the Listen* calls ----------------------- *)
\* a session is opened: the subscription request fails or ListenToStream starts
OpenSession(s, ok) ==
    /\ pc[s] = "idle"
    /\ IF ok
       THEN /\ pc' = [pc EXCEPT ![s] = "start"]
            /\ UNCHANGED result
       ELSE /\ pc' = [pc EXCEPT ![s] = "done"]
            /\ result' = [result EXCEPT ![s] = OpenErr]
    /\ UNCHANGED <<pending, cur, delivered, handled, recvCalls, active, last, hres, cancelledAtCall>>

\* ListenToBlocks(ctx, consumer): n.client.ListenToBlocks, then ListenToStream
ListenToBlocks_Call(ok) ==
    /\ "ListenToBlocks" \in workload
    /\ OpenSession("blocks", ok)
    /\ UNCHANGED <<workload, connVars, cacheVars, ctxCancelled, pollVars, runVars>>

\* Run(ctx): c, cancel := context.WithCancel(ctx); go func() {...}()
Run_Start ==
    /\ "Run" \in workload
    /\ runPc = "idle"
    /\ runPc' = "wait"
    /\ bgPc' = "spawned"
    /\ UNCHANGED <<workload, connVars, cacheVars, ctxCancelled, streamVars, pollVars, closeCount>>

\* the goroutine calls n.listenToNodeStatus(c): subscribe to the status stream
\* and consume it with ListenToStream
listenToNodeStatus(ok) ==
    /\ bgPc = "spawned"
    /\ bgPc' = "listening"
    /\ OpenSession("status", ok)
    /\ UNCHANGED <<workload, connVars, cacheVars, ctxCancelled, pollVars, runPc, closeCount>>

\* bug variant: cancel() is called only when listenToNodeStatus returned an error
Run_BgCancel_OnlyOnError ==
    /\ bgPc = "listening"
    /\ pc["status"] = "done"
    /\ bgPc' = "exited"
    /\ ctxCancelled' = [ctxCancelled EXCEPT !["status"] = (@ \/ result["status"] # Nil)]
    /\ UNCHANGED <<workload, connVars, cacheVars, streamVars, pollVars, runPc, closeCount>>

\* bug variant: the goroutine ends without calling cancel()
Run_BgCancel_NoCancel ==
    /\ bgPc = "listening"
    /\ pc["status"] = "done"
    /\ bgPc' = "exited"
    /\ UNCHANGED <<workload, connVars, cacheVars, ctxCancelled, streamVars, pollVars, runPc, closeCount>>

\* listenToNodeStatus returned (error logged if any); the goroutine calls cancel()
Run_BgCancel ==
    /\ bgPc = "listening"
    /\ pc["status"] = "done"
    /\ bgPc' = "exited"
    /\ ctxCancelled' = [ctxCancelled EXCEPT !["status"] = TRUE]
    /\ UNCHANGED <<workload, connVars, cacheVars, streamVars, pollVars, runPc, closeCount>>

\* bug variant: Run does not wait for c.Done() before closing
Run_Wait_NoWait ==
    /\ runPc = "wait"
    /\ runPc' = "close"
    /\ UNCHANGED <<workload, connVars, cacheVars, ctxCancelled, streamVars, pollVars, bgPc, closeCount>>

\* <-c.Done()
Run_Wait ==
    /\ runPc = "wait"
    /\ Done("status")
    /\ runPc' = "close"
    /\ UNCHANGED <<workload, connVars, cacheVars, ctxCancelled, streamVars, pollVars, bgPc, closeCount>>

\* _ = n.conn.Close(), and Run returns
Run_Close ==
    /\ runPc = "close"
    /\ closeCount' = closeCount + 1
    /\ runPc' = "returned"
    /\ UNCHANGED <<workload, connVars, cacheVars, ctxCancelled, streamVars, pollVars, bgPc>>

(* --------------------------- status cache ------------------------------ *)
\* listeners hooked to Events.LatestCommitmentChanged and
\* Events.LatestFinalizedCommitmentChanged, in registration order
Listeners == <<"l1", "l2">>
\* Trigger: every listener of the category is invoked with the commitment
NotifyAll(cat, slot) == [i \in 1..Len(Listeners) |-> <<cat, Listeners[i], slot>>]

\* bug variant: the latest commitments are compared
FinalizedChanged_Commitment(old, new) == CommitSlot(old) # CommitSlot(new)

\* the finalized commitment of the new record differs from the cached one
FinalizedChanged(old, new) == FinalSlot(old) # FinalSlot(new)

\* bug variant: only the finalized commitment of the snapshot is replaced
StoreSnapshot_FinalizedOnly(item) ==
    /\ prevSnapshot' = snapshot
    /\ snapshot' = (IF snapshot = None THEN item ELSE StatusOf(CommitSlot(snapshot), FinalSlot(item)))
    /\ events' = <<>>

\* processNodeStatus, first half: under nodeStatusMutex.Lock() the whole
\* snapshot is replaced by the new record
StoreSnapshot(item) ==
    /\ prevSnapshot' = snapshot
    /\ snapshot' = item
    /\ events' = <<>>

\* processNodeStatus, second half: after the lock is released the listeners of
\* LatestCommitmentChanged are triggered with the new commitment, then those of
\* LatestFinalizedCommitmentChanged if the finalized commitment changed
NotifyListeners ==
    /\ events' = NotifyAll("LatestCommitmentChanged", CommitSlot(snapshot))
                 \o (IF FinalizedChanged(prevSnapshot, snapshot)
                     THEN NotifyAll("LatestFinalizedCommitmentChanged", FinalSlot(snapshot))
                     ELSE <<>>)
    /\ UNCHANGED <<snapshot, prevSnapshot>>

\* the status subscription's handler stores the record it was invoked with
processNodeStatus_Store ==
    /\ pc["status"] = "handle"
    /\ StoreSnapshot(cur["status"])
    /\ pc' = [pc EXCEPT !["status"] = "stored"]
    /\ UNCHANGED <<workload, connVars, ctxCancelled, pollVars, runVars, readPrev, readCur, pending, cur, result, delivered, handled, recvCalls, active, last, hres, cancelledAtCall>>

\* the status subscription's handler triggers the events
processNodeStatus_Notify ==
    /\ pc["status"] = "stored"
    /\ NotifyListeners
    /\ pc' = [pc EXCEPT !["status"] = "notified"]
    /\ UNCHANGED <<workload, connVars, ctxCancelled, pollVars, runVars, readPrev, readCur, pending, cur, result, delivered, handled, recvCalls, active, last, hres, cancelledAtCall>>

\* a reader calls LatestCommitment(): under nodeStatusMutex.RLock() it copies
\* the cached commitment
LatestCommitment_Read ==
    /\ "LatestCommitment" \in workload
    /\ snapshot # None
    /\ readPrev' = readCur
    /\ readCur' = CommitSlot(snapshot)
    /\ <<readPrev', readCur'>> # <<readPrev, readCur>>
    /\ UNCHANGED <<workload, connVars, ctxCancelled, streamVars, pollVars, runVars, snapshot, prevSnapshot, events>>

(* ------------------------------- Connect ------------------------------- *)
ConfigOK == "ok"
DialErr == "dialErr"
MismatchErr == "networkNameMismatch"
StatusReadErr == "statusReadErr"
StatusDecodeErr == "statusDecodeErr"
\* status codes of a failed ReadNodeConfiguration attempt: Unavailable is
\* retried by the retry interceptor, Internal is not, Canceled is the error of
\* a context that is done
RetriableErrs == {"Unavailable"}
FetchErrs == {"Unavailable", "Internal", StatusCanceled}
Networks == {"netA", "netB"}
TargetNames == {""} \cup Networks

\* bug variant: one attempt more than maxConnectionAttempts
RetryAllowed_OffByOne(made, max) == made <= max

\* grpcretry.WithMax(maxConnectionAttempts): another attempt is made while
\* fewer than max were made; max = 0 disables retrying
RetryAllowed(made, max) == made < max

\* bug variant: the empty target name does not disable the check
NetworkMismatch_AlwaysChecked(target, name) == target # name

\* targetNetworkName != "" && targetNetworkName != NetworkName()
NetworkMismatch(target, name) == target # "" /\ target # name

\* Connect(ctx, address, maxConnectionAttempts): grpc.Dial and its error check
Connect_Dial(m, ok) ==
    /\ "Connect" \in workload
    /\ connPc = "idle"
    /\ m \in 0..MaxAttempts
    /\ maxAttempts' = m
    /\ connLog' = Append(connLog, "dial")
    /\ IF ok
       THEN /\ connPc' = "fetch"
            /\ UNCHANGED connResult
       ELSE /\ connPc' = "done"
            /\ connResult' = DialErr
    /\ UNCHANGED <<workload, cacheVars, ctxCancelled, streamVars, pollVars, runVars, targetNetworkName, networkName, attempts, backoffs, fetchLog, statusReads>>

\* bug variant: a failed attempt is retried at once, retryBackoff is not used
Connect_Fetch_NoBackoff(o, nn) ==
    /\ connPc = "fetch"
    /\ o \in {ConfigOK} \cup FetchErrs
    /\ o = StatusCanceled => Done("connect")
    /\ nn \in Networks
    /\ attempts' = attempts + 1
    /\ fetchLog' = Append(fetchLog, o)
    /\ connLog' = Append(connLog, "fetch")
    /\ IF o = ConfigOK
       THEN /\ networkName' = nn
            /\ connPc' = "check"
            /\ UNCHANGED connResult
       ELSE IF o \in RetriableErrs /\ RetryAllowed(attempts + 1, maxAttempts)
            THEN /\ connPc' = "fetch"
                 /\ UNCHANGED <<connResult, networkName>>
            ELSE /\ connPc' = "done"
                 /\ connResult' = o
                 /\ UNCHANGED networkName
    /\ UNCHANGED <<workload, cacheVars, ctxCancelled, streamVars, pollVars, runVars, maxAttempts, targetNetworkName, statusReads, backoffs>>

\* one attempt of n.client.ReadNodeConfiguration under the retry policy
\* WithMax(maxConnectionAttempts), WithBackoff(retryBackoff) returns o; on
\* success the configuration (with network name nn) is stored
Connect_Fetch(o, nn) ==
    /\ connPc = "fetch"
    /\ o \in {ConfigOK} \cup FetchErrs
    /\ o = StatusCanceled => Done("connect")
    /\ nn \in Networks
    /\ attempts' = attempts + 1
    /\ fetchLog' = Append(fetchLog, o)
    /\ connLog' = Append(connLog, "fetch")
    /\ IF o = ConfigOK
       THEN /\ networkName' = nn
            /\ connPc' = "check"
            /\ UNCHANGED <<connResult, backoffs>>
       ELSE IF o \in RetriableErrs /\ RetryAllowed(attempts + 1, maxAttempts)
            THEN /\ connPc' = "backoff"
                 /\ backoffs' = backoffs + 1
                 /\ UNCHANGED <<connResult, networkName>>
            ELSE /\ connPc' = "done"
                 /\ connResult' = o
                 /\ UNCHANGED <<backoffs, networkName>>
    /\ UNCHANGED <<workload, cacheVars, ctxCancelled, streamVars, pollVars, runVars, maxAttempts, targetNetworkName, statusReads>>

\* the one-second backoff returned by retryBackoff is over
Connect_BackoffEnd ==
    /\ connPc = "backoff"
    /\ connPc' = "fetch"
    /\ UNCHANGED <<workload, cacheVars, ctxCancelled, streamVars, pollVars, runVars, connResult, maxAttempts, targetNetworkName, networkName, attempts, backoffs, fetchLog, connLog, statusReads>>

\* the context ends during the backoff: the retry stops with the context's error
Connect_BackoffCancelled ==
    /\ connPc = "backoff"
    /\ Done("connect")
    /\ connPc' = "done"
    /\ connResult' = StatusCanceled
    /\ UNCHANGED <<workload, cacheVars, ctxCancelled, streamVars, pollVars, runVars, maxAttempts, targetNetworkName, networkName, attempts, backoffs, fetchLog, connLog, statusReads>>

\* if n.targetNetworkName != "" { ... network name mismatch ... }
Connect_CheckNetwork ==
    /\ connPc = "check"
    /\ connLog' = Append(connLog, "check")
    /\ IF NetworkMismatch(targetNetworkName, networkName)
       THEN /\ connPc' = "done"
            /\ connResult' = MismatchErr
       ELSE /\ connPc' = "status"
            /\ UNCHANGED connResult
    /\ UNCHANGED <<workload, cacheVars, ctxCancelled, streamVars, pollVars, runVars, maxAttempts, targetNetworkName, networkName, attempts, backoffs, fetchLog, statusReads>>

\* bug variant: a failed status request is repeated once
Connect_ReadStatus_Retry(ok, item) ==
    /\ connPc = "status"
    /\ item \in StatusItems
    /\ statusReads' = statusReads + 1
    /\ connLog' = Append(connLog, "status")
    /\ IF ok
       THEN /\ connPc' = "init"
            /\ cur' = [cur EXCEPT !["status"] = item]
            /\ UNCHANGED connResult
       ELSE IF statusReads = 0
            THEN UNCHANGED <<connPc, connResult, cur>>
            ELSE /\ connPc' = "done"
                 /\ connResult' = StatusReadErr
                 /\ UNCHANGED cur
    /\ UNCHANGED <<workload, cacheVars, ctxCancelled, pollVars, runVars, maxAttempts, targetNetworkName, networkName, attempts, backoffs, fetchLog, pc, pending, result, delivered, handled, recvCalls, active, last, hres, cancelledAtCall>>

\* nodeStatus, err := n.client.ReadNodeStatus(ctx, ...): item is the record
\* read, or the request fails
Connect_ReadStatus(ok, item) ==
    /\ connPc = "status"
    /\ item \in StatusItems
    /\ statusReads' = statusReads + 1
    /\ connLog' = Append(connLog, "status")
    /\ IF ok
       THEN /\ connPc' = "init"
            /\ cur' = [cur EXCEPT !["status"] = item]
            /\ UNCHANGED connResult
       ELSE /\ connPc' = "done"
            /\ connResult' = StatusReadErr
            /\ UNCHANGED cur
    /\ UNCHANGED <<workload, cacheVars, ctxCancelled, pollVars, runVars, maxAttempts, targetNetworkName, networkName, attempts, backoffs, fetchLog, pc, pending, result, delivered, handled, recvCalls, active, last, hres, cancelledAtCall>>

\* return n.processNodeStatus(nodeStatus): the record cannot be decoded, or the
\* first snapshot is stored
Connect_ProcessStatus(ok) ==
    /\ connPc = "init"
    /\ connLog' = Append(connLog, "init")
    /\ IF ok
       THEN /\ StoreSnapshot(cur["status"])
            /\ connPc' = "notify"
            /\ UNCHANGED connResult
       ELSE /\ connPc' = "done"
            /\ connResult' = StatusDecodeErr
            /\ UNCHANGED <<snapshot, prevSnapshot, events>>
    /\ UNCHANGED <<workload, ctxCancelled, streamVars, pollVars, runVars, readPrev, readCur, maxAttempts, targetNetworkName, networkName, attempts, backoffs, fetchLog, statusReads>>

\* processNodeStatus triggers the events and Connect returns nil
Connect_Notify ==
    /\ connPc = "notify"
    /\ NotifyListeners
    /\ connPc' = "done"
    /\ connResult' = Nil
    /\ UNCHANGED <<workload, ctxCancelled, streamVars, pollVars, runVars, readPrev, readCur, maxAttempts, targetNetworkName, networkName, attempts, backoffs, fetchLog, connLog, statusReads>>

(* ---------------------------- specification ---------------------------- *)
Workloads == {{"ListenToStream"}, {"Indexer"}, {"EventAPI"}, {"ListenToBlocks"}, {"Run", "ListenToBlocks"}, {"Run", "LatestCommitment"}, {"Connect"}}
\* the runs in which at most one goroutine of the client is blocked on the node
LiveWorkloads == Workloads \ {{"Run", "ListenToBlocks"}}

InitOf(W) ==
    /\ workload \in W
    /\ ctxCancelled = [x \in Ctxs |-> FALSE]
    /\ pc = [s \in Sessions |-> "idle"]
    /\ pending = [s \in Sessions |-> None]
    /\ cur = [s \in Sessions |-> None]
    /\ result = [s \in Sessions |-> None]
    /\ delivered = [s \in Sessions |-> <<>>]
    /\ handled = [s \in Sessions |-> <<>>]
    /\ recvCalls = [s \in Sessions |-> 0]
    /\ active = [s \in Sessions |-> 0]
    /\ last = [s \in Sessions |-> None]
    /\ hres = [s \in Sessions |-> None]
    /\ cancelledAtCall = [s \in Sessions |-> FALSE]
    /\ pollPc = [p \in Plugins |-> "idle"]
    /\ pollResult = [p \in Plugins |-> None]
    /\ probes = [p \in Plugins |-> 0]
    /\ sleeps = [p \in Plugins |-> 0]
    /\ probeLog = [p \in Plugins |-> <<>>]
    /\ entryCancelled = [p \in Plugins |-> FALSE]
    /\ sleptWhileDone = [p \in Plugins |-> FALSE]
    /\ runPc = "idle"
    /\ bgPc = "idle"
    /\ closeCount = 0
    /\ connPc = "idle"
    /\ connResult = None
    /\ maxAttempts = 0
    /\ targetNetworkName \in (IF "Connect" \in workload THEN TargetNames ELSE {""})
    /\ networkName = None
    /\ attempts = 0
    /\ backoffs = 0
    /\ fetchLog = <<>>
    /\ connLog = <<>>
    /\ statusReads = 0
    \* Run is called on a bridge that Connect has primed with the node's status
    /\ snapshot = (IF "Run" \in workload THEN FirstStatus ELSE None)
    /\ prevSnapshot = None
    /\ events = <<>>
    /\ readPrev = 0
    /\ readCur = 0

Init == InitOf(Workloads)

Next ==
    \/ \E x \in Ctxs : CancelCtx(x)
    \/ ListenToStream_Call
    \/ \E s \in Sessions : ListenToStream_Receive(s)
    \/ \E s \in Sessions : \E o \in AllItems \cup {StreamEOF, StatusCanceled, ErrClientConnClosing} \cup RecvErrs : StreamYield(s, o)
    \/ \E s \in Sessions : ListenToStream_Received(s)
    \/ \E s \in Sessions : ListenToStream_CheckCtx(s)
    \/ \E s \in Sessions : \E r \in {Nil} \cup HandlerErrs : ListenToStream_Consumed(s, r)
    \/ \E p \in Plugins : \E ok \in BOOLEAN : Poller_Call(p, ok)
    \/ \E p \in Plugins : Poller_Loop(p)
    \/ \E p \in Plugins : \E o \in ProbeOutcomes(p) : Poller_ProbeReturn(p, o)
    \/ \E p \in Plugins : Poller_Sleep(p)
    \/ \E ok \in BOOLEAN : ListenToBlocks_Call(ok)
    \/ Run_Start
    \/ \E ok \in BOOLEAN : listenToNodeStatus(ok)
    \/ Run_BgCancel
    \/ Run_Wait
    \/ Run_Close
    \/ processNodeStatus_Store
    \/ processNodeStatus_Notify
    \/ LatestCommitment_Read
    \/ \E m \in 0..MaxAttempts : \E ok \in BOOLEAN : Connect_Dial(m, ok)
    \/ \E o \in {ConfigOK} \cup FetchErrs : \E nn \in Networks : Connect_Fetch(o, nn)
    \/ Connect_BackoffEnd
    \/ Connect_BackoffCancelled
    \/ Connect_CheckNetwork
    \/ \E ok \in BOOLEAN : \E item \in StatusItems : Connect_ReadStatus(ok, item)
    \/ \E ok \in BOOLEAN : Connect_ProcessStatus(ok)
    \/ Connect_Notify

Spec == Init /\ [][Next]_vars

\* A client stream of the transport is bound to the context it was opened
\* with and to the connection: once either is gone, Recv reports Canceled.
GrpcStreamAbort(s) ==
    \/ Done(s) /\ StreamYield(s, StatusCanceled)
    \/ StreamYield(s, ErrClientConnClosing)

\* Every started goroutine keeps running: code that is not blocked takes its
\* next step, a handler returns, a probe ends within its one-second timeout
\* and a sleep ends.  Nothing forces the caller to cancel a context or a
\* caller-supplied receive function to return.
Fairness ==
    /\ \A s \in Sessions :
        /\ WF_vars(ListenToStream_Receive(s))
        /\ WF_vars(ListenToStream_Received(s))
        /\ WF_vars(ListenToStream_CheckCtx(s))
        /\ WF_vars(\E r \in {Nil} \cup HandlerErrs : ListenToStream_Consumed(s, r))
    /\ \A s \in GrpcSessions : WF_vars(GrpcStreamAbort(s))
    /\ \A p \in Plugins :
        /\ WF_vars(Poller_Loop(p))
        /\ WF_vars(\E o \in ProbeOutcomes(p) : Poller_ProbeReturn(p, o))
        /\ WF_vars(Poller_Sleep(p))
    /\ WF_vars(\E ok \in BOOLEAN : listenToNodeStatus(ok))
    /\ WF_vars(processNodeStatus_Store)
    /\ WF_vars(processNodeStatus_Notify)
    /\ WF_vars(Run_BgCancel)
    /\ WF_vars(Run_Wait)
    /\ WF_vars(Run_Close)

FairSpec == InitOf(LiveWorkloads) /\ [][Next]_vars /\ Fairness

(* ------------------------------- claims -------------------------------- *)
InLoop(s) == pc[s] \in {"start", "recv", "check", "handle", "stored", "notified"}
Last(q) == q[Len(q)]
RECURSIVE CountOf(_, _)
CountOf(q, v) == IF q = <<>> THEN 0 ELSE (IF Last(q) = v THEN 1 ELSE 0) + CountOf(SubSeq(q, 1, Len(q) - 1), v)

\* C1 as stated: the connection is closed at most once and never while the
\* background status subscription is still inside its receive loop.
C1_ClosedOnlyAfterBackgroundStopped ==
    /\ closeCount <= 1
    /\ closeCount > 0 => ~InLoop("status")

\* C1 amended: Run closes the connection exactly once, and only after its
\* derived context c is done (cancelled by the caller through ctx, or by the
\* goroutine after listenToNodeStatus returned); it does not wait for the
\* background task.
C1_ClosedOnceAfterDerivedCtxDone ==
    /\ closeCount <= 1
    /\ closeCount > 0 => Done("status")
    /\ runPc = "returned" <=> closeCount = 1

\* ctx was cancelled and the connection is closed while the background task is
\* blocked in receiverFunc
C1_Witness ==
    /\ ctxCancelled["run"]
    /\ closeCount = 1
    /\ pc["status"] = "recv"

\* C2: once the receive function has reported io.EOF the call has returned nil,
\* the handler was invoked exactly once per delivered item, in delivery order,
\* it is not running any more, and at no time are two invocations in progress.
C2_CleanEndOfStream ==
    \A s \in Sessions :
        /\ active[s] <= 1
        /\ last[s] = StreamEOF =>
            /\ pc[s] = "done"
            /\ result[s] = Nil
            /\ handled[s] = delivered[s]
            /\ active[s] = 0
            /\ recvCalls[s] = Len(delivered[s]) + 1

\* two different items were delivered and handled, then the stream ended
C2_Witness ==
    /\ last["generic"] = StreamEOF
    /\ ~Done("generic")
    /\ Len(handled["generic"]) = 2
    /\ handled["generic"][1] # handled["generic"][2]

\* C3: when the handler fails on an item the call returns exactly that error,
\* the failing item is the last one handled, and receiverFunc is not called
\* again.
C3_HandlerErrorAborts ==
    \A s \in Sessions :
        hres[s] \in HandlerErrs =>
            /\ pc[s] = "done"
            /\ result[s] = hres[s]
            /\ handled[s] = delivered[s]
            /\ recvCalls[s] = Len(delivered[s])
            /\ active[s] = 0

\* the handler failed on the second item
C3_Witness ==
    /\ hres["generic"] = "hErrB"
    /\ Len(handled["generic"]) = 2

\* C4: io.EOF or a Canceled status ends the call with nil, any other receive
\* error ends it with exactly that error; in both cases every item delivered
\* before was handled and the handler is not running.
C4_ReceiveErrorMapping ==
    \A s \in Sessions :
        /\ last[s] \in {StreamEOF, StatusCanceled} => pc[s] = "done" /\ result[s] = Nil
        /\ last[s] \in RecvErrs => pc[s] = "done" /\ result[s] = last[s]
        /\ last[s] \in {StreamEOF, StatusCanceled} \cup RecvErrs =>
            /\ handled[s] = delivered[s]
            /\ active[s] = 0

\* after one handled item the receive function reported a Canceled status
C4_Witness ==
    /\ last["generic"] = StatusCanceled
    /\ pc["generic"] = "done"
    /\ result["generic"] = Nil
    /\ Len(handled["generic"]) = 1

\* C5: an item returned by a receive call that began after the context was
\* cancelled is never handed to the handler: the call stops and returns nil.
C5_CancelledItemDropped ==
    \A s \in Sessions :
        (cancelledAtCall[s] /\ last[s] \in ItemsOf(s)) =>
            /\ pc[s] \in {"check", "done"}
            /\ Len(handled[s]) = Len(delivered[s]) - 1
            /\ handled[s] = SubSeq(delivered[s], 1, Len(handled[s]))
            /\ pc[s] = "done" => result[s] = Nil

\* one item was handled, the context was cancelled, the second item was dropped
C5_Witness ==
    /\ cancelledAtCall["generic"]
    /\ last["generic"] \in ItemsOf("generic")
    /\ pc["generic"] = "done"
    /\ Len(delivered["generic"]) = 2
    /\ Len(handled["generic"]) = 1

\* C6 as stated: every blocking operation that was called returns once its
\* context is cancelled, whether or not the receive function yields again.
C6_CancelUnblocksEverything ==
    /\ \A s \in {"generic", "blocks"} : (Done(s) /\ pc[s] # "idle") ~> (pc[s] = "done")
    /\ \A p \in Plugins : (Done(p) /\ pollPc[p] # "idle") ~> (pollPc[p] = "done")
    /\ (Done("run") /\ runPc # "idle") ~> (runPc = "returned")

\* C6 amended: after cancellation the pollers and Run return without any
\* further data, and a Listen* call returns because its stream, bound to the
\* cancelled context, reports Canceled; ListenToStream itself never watches the
\* context and returns only once its receive function has returned once more.
C6_CancelUnblocksOnceReceiveReturns ==
    /\ (Done("generic") /\ pending["generic"] # None) ~> (pc["generic"] = "done")
    /\ (Done("blocks") /\ pc["blocks"] # "idle") ~> (pc["blocks"] = "done")
    /\ \A p \in Plugins : (Done(p) /\ pollPc[p] # "idle") ~> (pollPc[p] = "done")
    /\ (Done("run") /\ runPc # "idle") ~> (runPc = "returned")

\* the context is cancelled and ListenToStream is blocked in a receive
\* function that has nothing to report
C6_Witness ==
    /\ Done("generic")
    /\ pc["generic"] = "recv"
    /\ pending["generic"] = None
    /\ handled["generic"] # <<>>

\* C7: a poller whose probe succeeds after n "plugin not available" failures
\* returns the handle after exactly n + 1 probes and exactly n sleeps.
C7_RetriesUntilAvailable ==
    \A p \in Plugins :
        /\ (probeLog[p] # <<>> /\ Last(probeLog[p]) = ProbeOK) =>
            /\ pollPc[p] = "done"
            /\ pollResult[p] = Handle
        /\ pollResult[p] = Handle =>
            /\ Last(probeLog[p]) = ProbeOK
            /\ \A i \in 1..(Len(probeLog[p]) - 1) : probeLog[p][i] = NotAvailableErr(p)
            /\ probes[p] = Len(probeLog[p])
            /\ sleeps[p] = probes[p] - 1

\* two failures, then success
C7_Witness ==
    /\ pollResult["indexer"] = Handle
    /\ ~Done("indexer")
    /\ probes["indexer"] = 3
    /\ sleeps["indexer"] = 2

\* C8: a poller called with an already cancelled context (and a node client)
\* returns its "plugin not available" error without any probe or sleep.
C8_CancelledAtEntry ==
    \A p \in Plugins :
        (entryCancelled[p] /\ pollResult[p] # ClientErr) =>
            /\ pollPc[p] \in {"loop", "done"}
            /\ probes[p] = 0
            /\ sleeps[p] = 0
            /\ probeLog[p] = <<>>
            /\ pollPc[p] = "done" => pollResult[p] = NotAvailableErr(p)

C8_Witness ==
    /\ entryCancelled["mqtt"]
    /\ pollPc["mqtt"] = "done"
    /\ pollResult["mqtt"] = "ErrMQTTPluginNotAvailable"

\* C9 as stated: the poller never starts a sleep when the context is already
\* done at the moment the probe fails with "plugin not available".
C9_NoSleepWhenCtxDone ==
    \A p \in Plugins : ~sleptWhileDone[p]

\* C9 amended: every "plugin not available" failure is followed by the
\* one-second sleep, also when the context is already done; after such a sleep
\* the poller makes no further probe and returns "plugin not available".
C9_SleepsThenStops ==
    \A p \in Plugins :
        /\ sleeps[p] + (IF pollPc[p] = "sleep" THEN 1 ELSE 0) = CountOf(probeLog[p], NotAvailableErr(p))
        /\ sleptWhileDone[p] =>
            /\ pollPc[p] \in {"sleep", "loop", "done"}
            /\ probes[p] = Len(probeLog[p])
            /\ Last(probeLog[p]) = NotAvailableErr(p)
            /\ pollPc[p] = "done" => pollResult[p] = NotAvailableErr(p)

\* the context was done when the first probe failed; the poller slept and then
\* returned
C9_Witness ==
    /\ sleptWhileDone["indexer"]
    /\ pollPc["indexer"] = "done"
    /\ sleeps["indexer"] = 1
    /\ probes["indexer"] = 1

\* C10: a probe error other than "plugin not available" ends the poller at
\* once with that error: no sleep follows it and no further probe is made.
C10_OtherErrorPropagates ==
    \A p \in Plugins :
        (probeLog[p] # <<>> /\ Last(probeLog[p]) \in ProbeErrs) =>
            /\ pollPc[p] = "done"
            /\ pollResult[p] = Last(probeLog[p])
            /\ probes[p] = Len(probeLog[p])
            /\ sleeps[p] = Len(probeLog[p]) - 1

\* one retry, then a failed request
C10_Witness ==
    /\ pollResult["mqtt"] = "requestFailed"
    /\ probes["mqtt"] = 2
    /\ sleeps["mqtt"] = 1

\* all ReadNodeConfiguration attempts made so far failed
AllFetchesFailed == fetchLog # <<>> /\ Last(fetchLog) # ConfigOK
\* the attempts the retry policy allows: maxConnectionAttempts, and one when
\* that is 0
AttemptBudget == IF maxAttempts = 0 THEN 1 ELSE maxAttempts
StepRank(x) == IF x = "dial" THEN 1 ELSE IF x = "fetch" THEN 2 ELSE IF x = "check" THEN 3 ELSE IF x = "status" THEN 4 ELSE 5

\* C11 as stated: a fetch that fails fewer than maxAttempts times and then
\* succeeds is retried up to the success, whatever the failures are: Connect
\* gives up on a failed fetch only when maxAttempts attempts were made, and a
\* success after f failures took f + 1 attempts and f backoffs.
C11_RetriesAnyFailure ==
    /\ (fetchLog # <<>> /\ Last(fetchLog) = ConfigOK) =>
        /\ attempts = Len(fetchLog)
        /\ backoffs = attempts - 1
        /\ attempts <= AttemptBudget
    /\ (connPc = "done" /\ AllFetchesFailed /\ ~Done("connect")) => attempts >= maxAttempts

\* C11 amended: when the configuration fetch succeeds after f failed attempts, Connect
\* has made exactly f + 1 attempts and begun exactly f one-second backoffs,
\* all failures were retriable and f + 1 is within maxAttempts; it gives up on
\* a retriable failure only when maxAttempts attempts were made (a failure
\* that is not retriable ends Connect at once); and with the network check and
\* the status read passing, Connect returns nil.
C11_FetchRetriedUntilSuccess ==
    /\ (fetchLog # <<>> /\ Last(fetchLog) = ConfigOK) =>
        /\ attempts = Len(fetchLog)
        /\ backoffs = attempts - 1
        /\ attempts <= AttemptBudget
        /\ \A i \in 1..(Len(fetchLog) - 1) : fetchLog[i] \in RetriableErrs
        /\ connPc = "done" => connResult \in {Nil, MismatchErr, StatusReadErr, StatusDecodeErr}
        /\ (connPc = "done" /\ Last(connLog) = "init" /\ snapshot # None) => connResult = Nil
    /\ (connPc = "done" /\ connResult \in RetriableErrs) => attempts >= maxAttempts

\* maxAttempts = 3: two failures, two backoffs, success at the third attempt
C11_Witness ==
    /\ maxAttempts = 3
    /\ attempts = 3
    /\ backoffs = 2
    /\ connResult = Nil

\* C12 as stated: never more than maxAttempts attempts; when all failed,
\* Connect returns the last attempt's error, without network check or status
\* read, and the snapshot stays unpopulated.
C12_AttemptsWithinMax ==
    /\ attempts <= maxAttempts
    /\ (connPc = "done" /\ AllFetchesFailed) =>
        /\ connResult = Last(fetchLog)
        /\ statusReads = 0
        /\ Last(connLog) = "fetch"
        /\ snapshot = None

\* C12 amended: never more than maxAttempts attempts, except that
\* maxAttempts = 0 disables retrying and one attempt is made; when all
\* attempts failed Connect returns the last attempt's error, or the context's
\* error when the context ended during a backoff; in both cases there is no
\* network check and no status read and the snapshot stays unpopulated.
C12_AttemptsWithinBudget ==
    /\ attempts <= AttemptBudget
    /\ (connPc = "done" /\ AllFetchesFailed) =>
        /\ \/ connResult = Last(fetchLog) /\ backoffs = attempts - 1
           \/ connResult = StatusCanceled /\ Done("connect") /\ backoffs = attempts
        /\ statusReads = 0
        /\ Last(connLog) = "fetch"
        /\ networkName = None
        /\ snapshot = None

\* the budget of three attempts is used up
C12_Witness ==
    /\ maxAttempts = 3
    /\ attempts = 3
    /\ connPc = "done"
    /\ connResult = "Unavailable"
    /\ ~Done("connect")

\* C13: Connect fails with the mismatch error exactly when a non-empty target
\* network name differs from the configuration's; then no further fetch and no
\* status read was made; an empty target name never fails Connect.
C13_NetworkNameCheck ==
    /\ connResult = MismatchErr =>
        /\ targetNetworkName # ""
        /\ targetNetworkName # networkName
        /\ connPc = "done"
        /\ Last(connLog) = "check"
        /\ Last(fetchLog) = ConfigOK
        /\ attempts = Len(fetchLog)
        /\ statusReads = 0
        /\ snapshot = None
    /\ (networkName # None /\ targetNetworkName \notin {"", networkName} /\ connPc # "check") =>
        connResult = MismatchErr
    /\ targetNetworkName = "" => connResult # MismatchErr

\* the configuration came at the second attempt and names another network
C13_Witness ==
    /\ connResult = MismatchErr
    /\ targetNetworkName = "netA"
    /\ networkName = "netB"
    /\ attempts = 2

\* C14: Connect's steps happen in the order dial, fetch (repeated only by the
\* retry), network check, status read, snapshot initialization, each only
\* after the previous one succeeded; a dial failure ends Connect before any
\* fetch; the status is requested at most once and its failure is returned.
C14_StepsInOrder ==
    /\ connLog # <<>> => connLog[1] = "dial"
    /\ \A i \in 1..(Len(connLog) - 1) :
        \/ connLog[i] = "fetch" /\ connLog[i + 1] = "fetch"
        \/ StepRank(connLog[i + 1]) = StepRank(connLog[i]) + 1
    /\ connResult = DialErr => connLog = <<"dial">> /\ attempts = 0 /\ connPc = "done"
    /\ (connLog # <<>> /\ StepRank(Last(connLog)) >= 3) => Last(fetchLog) = ConfigOK
    /\ (connLog # <<>> /\ StepRank(Last(connLog)) >= 4) => ~NetworkMismatch(targetNetworkName, networkName)
    /\ statusReads <= 1
    /\ connResult = StatusReadErr => connPc = "done" /\ Last(connLog) = "status" /\ snapshot = None
    /\ (connLog # <<>> /\ Last(connLog) = "init") => statusReads = 1 /\ connResult # StatusReadErr
    /\ ("Connect" \in workload /\ snapshot # None) => Last(connLog) = "init"

\* the status request failed after a retried fetch and a passed network check
C14_Witness ==
    /\ connResult = StatusReadErr
    /\ connLog = <<"dial", "fetch", "fetch", "check", "status">>
    /\ targetNetworkName # ""

\* C15 as stated: a ListenToBlocks call whose own context is not cancelled is
\* never ended by Run's shutdown: it neither stops at its context check nor
\* has its stream ended by the connection close.
C15_UnaffectedByRunShutdown ==
    ~ctxCancelled["blocks"] =>
        /\ ~(pc["blocks"] = "done" /\ result["blocks"] = Nil /\ last["blocks"] \in ItemsOf("blocks"))
        /\ last["blocks"] # ErrClientConnClosing

\* C15 amended: cancelling Run's context does not cancel the context of a
\* ListenToBlocks call, which stops at its context check only when its own
\* context is cancelled; but the connection close at the end of Run (after
\* Run's context was cancelled or the status subscription ended) ends the
\* call's stream with a Canceled status, and the call then returns nil.
C15_EndedOnlyByConnectionClose ==
    /\ ~ctxCancelled["blocks"] =>
        ~(pc["blocks"] = "done" /\ result["blocks"] = Nil /\ last["blocks"] \in ItemsOf("blocks"))
    /\ (pending["blocks"] = ErrClientConnClosing \/ last["blocks"] = ErrClientConnClosing) =>
        /\ closeCount > 0
        /\ Done("status")
    /\ last["blocks"] = ErrClientConnClosing =>
        /\ pc["blocks"] = "done"
        /\ result["blocks"] = Nil
        /\ handled["blocks"] = delivered["blocks"]

\* the status subscription failed, Run closed the connection, and the
\* ListenToBlocks call, its context never cancelled, ended after one block
C15_Witness ==
    /\ ~ctxCancelled["blocks"]
    /\ ~ctxCancelled["run"]
    /\ result["status"] \in RecvErrs
    /\ closeCount = 1
    /\ last["blocks"] = ErrClientConnClosing
    /\ pc["blocks"] = "done"
    /\ result["blocks"] = Nil
    /\ Len(handled["blocks"]) = 1

\* C16: Run has not closed the connection and has not returned while its
\* context is not cancelled and the status subscription has not ended; and
\* once Run is waiting and its context is cancelled or the subscription has
\* ended, Run eventually closes the connection and returns.
C16_RunBlocksThenCloses ==
    /\ [](runPc \in {"close", "returned"} \/ closeCount > 0 =>
            ctxCancelled["run"] \/ (pc["status"] = "done" /\ bgPc = "exited"))
    /\ (runPc = "wait" /\ (ctxCancelled["run"] \/ (bgPc = "listening" /\ pc["status"] = "done")))
            ~> (runPc = "returned" /\ closeCount = 1)

\* the subscription ended with an error after one update; Run, its context
\* never cancelled, closed the connection and returned
C16_Witness ==
    /\ ~ctxCancelled["run"]
    /\ result["status"] \in RecvErrs
    /\ Len(handled["status"]) = 1
    /\ runPc = "returned"
    /\ closeCount = 1

\* the invocations of one event category, in the order they were made
EventsOf(cat) == SelectSeq(events, LAMBDA e : e[1] = cat)
\* every listener invoked once, in registration order, with the given slot
InRegistrationOrder(q, slot) ==
    /\ Len(q) = Len(Listeners)
    /\ \A i \in 1..Len(q) : q[i][2] = Listeners[i] /\ q[i][3] = slot
\* processNodeStatus has returned for the record in cur["status"]
UpdateDone == pc["status"] = "notified" \/ (connPc = "done" /\ connResult = Nil)

C18_ListenersNotified ==
    /\ UpdateDone =>
        /\ snapshot = cur["status"]
        /\ InRegistrationOrder(EventsOf("LatestCommitmentChanged"), CommitSlot(cur["status"]))
        /\ EventsOf("LatestFinalizedCommitmentChanged") # <<>> <=> FinalSlot(prevSnapshot) # FinalSlot(snapshot)
        /\ EventsOf("LatestFinalizedCommitmentChanged") # <<>> =>
            InRegistrationOrder(EventsOf("LatestFinalizedCommitmentChanged"), FinalSlot(cur["status"]))
        /\ Len(events) = Len(EventsOf("LatestCommitmentChanged")) + Len(EventsOf("LatestFinalizedCommitmentChanged"))
    /\ (pc["status"] = "stored" \/ connPc = "notify") => snapshot = cur["status"] /\ events = <<>>

\* the second update changed the latest commitment only: two invocations
C18_Witness ==
    /\ pc["status"] = "notified"
    /\ prevSnapshot = "c1f1"
    /\ snapshot = "c2f1"
    /\ Len(events) = 2

C20_TimeoutNotRetried ==
    \A p \in Plugins :
        /\ (probeLog[p] # <<>> /\ Last(probeLog[p]) \in ProbeCtxErrs) =>
            /\ ~IsNotAvailable(p, Last(probeLog[p]))
            /\ pollPc[p] = "done"
            /\ pollResult[p] = Last(probeLog[p])
            /\ pollResult[p] # NotAvailableErr(p)
            /\ sleeps[p] = CountOf(probeLog[p], NotAvailableErr(p))
        /\ pollResult[p] = NotAvailableErr(p) =>
            /\ Done(p)
            /\ pollPc[p] = "done"
            /\ \A i \in 1..Len(probeLog[p]) : probeLog[p][i] = NotAvailableErr(p)
            /\ probes[p] = Len(probeLog[p])
            /\ sleeps[p] = probes[p]

\* the context was cancelled during the second probe, whose error the poller
\* returned
C20_Witness ==
    /\ probeLog["indexer"] = <<"ErrIndexerPluginNotAvailable", StatusCanceled>>
    /\ pollPc["indexer"] = "done"
    /\ pollResult["indexer"] = StatusCanceled
    /\ sleeps["indexer"] = 1

\* C21: once listenToNodeStatus has returned, with an error or with nil after
\* a clean end of stream, the goroutine cancels the derived context, and Run
\* closes the connection once and returns, also when Run's own context is
\* never cancelled; an ended status subscription stays ended: no further
\* receive is made and the goroutine is not started again.
C21_SubscriptionEndStopsRun ==
    /\ [](bgPc = "exited" => ctxCancelled["status"] /\ pc["status"] = "done")
    /\ [][/\ pc["status"] = "done" =>
                /\ pc'["status"] = "done"
                /\ result'["status"] = result["status"]
                /\ recvCalls'["status"] = recvCalls["status"]
          /\ bgPc \in {"listening", "exited"} => bgPc' \in {"listening", "exited"}
          /\ bgPc = "exited" => bgPc' = "exited"]_vars
    /\ (bgPc = "listening" /\ pc["status"] = "done")
            ~> (bgPc = "exited" /\ runPc = "returned" /\ closeCount = 1)

\* the status stream ended cleanly after one update, ListenToStream returned
\* nil, and Run closed the connection and returned with its context live
C21_Witness ==
    /\ ~ctxCancelled["run"]
    /\ last["status"] = StreamEOF
    /\ result["status"] = Nil
    /\ Len(handled["status"]) = 1
    /\ bgPc = "exited"
    /\ ctxCancelled["status"]
    /\ runPc = "returned"
    /\ closeCount = 1
====
